---- MODULE Spec2Model ----
(***************************************************************************)
(* A model of cbudget, the carbon-budget check for IaC deployments:        *)
(*   fetch_forecast.save_transformed_json   the forecast normalizer        *)
(*   temporal_window.find_optimal_window    the window optimizer           *)
(*   enforce_budget.enforce_budget          the budget decision            *)
(*   cli.run                                the end-to-end run             *)
(*                                                                         *)
(* Numbers.  A timestamp string is a record [tick, sfx]: the instant is    *)
(* tick * TickSeconds seconds after the epoch and sfx is the way the       *)
(* string writes UTC ("Z" or "+00:00").  An intensity value is a natural   *)
(* number (hundredths of g/kWh, the two decimals the normalizer keeps).    *)
(* Python floats that are quotients are kept as exact fractions num/den.   *)
(***************************************************************************)
EXTENDS Integers, Sequences, FiniteSets, TLC

VARIABLES
    w_points,     \* find_optimal_window: the "data" list of the forecast file
    w_duration,   \* find_optimal_window: duration_h
    w_pc,         \* "idle" | "call" | "done"
    w_result,     \* what find_optimal_window returned or raised
    n_raw,        \* save_transformed_json: data, the provider's payload
    n_duration,   \* save_transformed_json: duration_h, [none, h]: None or the integer h
    n_pc,         \* "idle" | "call" | "done"
    n_out,        \* what save_transformed_json wrote, or what it raised
    e_args,       \* enforce_budget: emission_rate_gph, threshold_g, duration_h
    e_pc,         \* "idle" | "call" | "opa" (waiting in subprocess.run) | "done"
    e_payload,    \* the JSON document fed to the evaluator on stdin
    e_calls,      \* how many times the evaluator process was started
    e_proc,       \* the completed evaluator process: returncode, stdout
    e_exit,       \* how enforce_budget ended, [how, code]: "return", "exit" with a code, an exception
    e_msg,        \* what enforce_budget echoed last
    r_pc,         \* run: the stage it is at
    r_duration,   \* run: duration_h, budget.duration of the config
    r_full,       \* run: the "data" list of forecast_full.json
    r_predicted,  \* run: (energy_whph, emission_rate) of predict_emission
    r_log,        \* run: what it echoed, in order
    r_exit        \* run: how the command ended

wvars == <<w_points, w_duration, w_pc, w_result>>
nvars == <<n_raw, n_duration, n_pc, n_out>>
evars == <<e_args, e_pc, e_payload, e_calls, e_proc, e_exit, e_msg>>
rvars == <<r_pc, r_duration, r_full, r_predicted, r_log, r_exit>>
vars == <<wvars, nvars, evars, rvars>>

-----------------------------------------------------------------------------
(* Bounds of the model *)

MaxN == 3          \* longest series
MaxTick == 3       \* timestamps are 0 .. MaxTick ticks
MaxVal == 1        \* intensity values are 0 .. MaxVal
MaxDur == 2        \* requested durations are -1 .. MaxDur hours

TickSeconds == 30 * 60       \* the grid of the model's timestamps: 30 minutes
SecondsPerHour == 3600       \* timedelta(hours=1).total_seconds()

Ticks == 0 .. MaxTick
Values == 0 .. MaxVal
Durations == -1 .. MaxDur
Suffixes == {"Z", "+00:00"}

RECURSIVE SeqsUpTo(_, _)
SeqsUpTo(S, n) ==
    IF n = 0 THEN {<<>>}
    ELSE LET shorter == SeqsUpTo(S, n - 1)
         IN shorter \cup {Append(s, x) : s \in {t \in shorter : Len(t) = n - 1}, x \in S}

-----------------------------------------------------------------------------
(* Python helpers *)

\* datetime.fromisoformat(ts.replace("Z", "+00:00")): the instant, in seconds
ParseTs(ts) == ts.tick * TickSeconds

\* s[i:j] of a Python list (0-based, negative indices count from the end)
PyIndex(n, i) == IF i < 0 THEN (IF n + i < 0 THEN 0 ELSE n + i)
                 ELSE (IF i > n THEN n ELSE i)

PySlice(s, i, j) ==
    LET a == PyIndex(Len(s), i)
        b == PyIndex(Len(s), j)
    IN IF a < b THEN SubSeq(s, a + 1, b) ELSE <<>>

\* list.sort(key=...): stable, ascending by key
RECURSIVE InsertByTime(_, _)
InsertByTime(sorted, x) ==
    IF sorted = <<>> THEN <<x>>
    ELSE IF sorted[Len(sorted)].t <= x.t THEN Append(sorted, x)
    ELSE Append(InsertByTime(SubSeq(sorted, 1, Len(sorted) - 1), x), sorted[Len(sorted)])

RECURSIVE SortByTime(_)
SortByTime(s) ==
    IF s = <<>> THEN <<>>
    ELSE InsertByTime(SortByTime(SubSeq(s, 1, Len(s) - 1)), s[Len(s)])

RECURSIVE SumVals(_)
SumVals(s) == IF s = <<>> THEN 0 ELSE s[1].v + SumVals(Tail(s))

Sign(x) == IF x < 0 THEN -1 ELSE 1

\* a/b < c/d for non-zero b and d
FracLess(a, b, c, d) == a * d * Sign(b) * Sign(d) < c * b * Sign(b) * Sign(d)

-----------------------------------------------------------------------------
(* temporal_window.find_optimal_window *)

\* samples: the points parsed to (instant, value) and sorted by instant
ParseSamples(points) ==
    SortByTime([i \in 1 .. Len(points) |->
                   [t |-> ParseTs(points[i].timestamp), v |-> points[i].value]])

\* secs_per_sample: the gap between the first two sorted samples
SecsPerSample(samples) == samples[2].t - samples[1].t

\* samples_per_hour = int(3600 // secs_per_sample); window_size = duration_h * samples_per_hour
SamplesPerHour(samples) == SecondsPerHour \div SecsPerSample(samples)

WindowSize(samples, duration_h) == duration_h * SamplesPerHour(samples)

\* a mutation of AvgLess: avg <= best_avg, so that the last of equal windows wins
AvgLessOrEqual(sum, size, best) ==
    \/ ~best.set
    \/ ~FracLess(best.num, size, sum, size)

\* avg < best_avg, with best_avg = float('inf') until a window was taken
AvgLess(sum, size, best) ==
    \/ ~best.set
    \/ FracLess(sum, size, best.num, size)

\* the loop over i in range(n - window_size + 1), from iteration i on
RECURSIVE Slide(_, _, _, _)
Slide(samples, size, i, best) ==
    IF i >= Len(samples) - size + 1 THEN best
    ELSE LET window == PySlice(samples, i, i + size)
             sum == SumVals(window)
         IN IF size = 0 THEN [best EXCEPT !.status = "ZeroDivisionError"]
            ELSE IF AvgLess(sum, size, best)
                 THEN IF window = <<>> THEN [best EXCEPT !.status = "IndexError"]
                      ELSE Slide(samples, size, i + 1,
                                 [status |-> "ok", set |-> TRUE, num |-> sum,
                                  start |-> window[1].t])
                 ELSE Slide(samples, size, i + 1, best)

\* what find_optimal_window gives: the window (start, end, average num/den), or
\* the exception, with the window size it had computed
NoWindow(status, size) ==
    [status |-> status, size |-> size, start |-> 0, end |-> 0, num |-> 0, den |-> 0]

\* a mutation of ExceedsForecast: window_size >= n
ReachesForecast(size, n) == size >= n

\* if window_size > n: raise ValueError("Requested window ... exceeds forecast length")
ExceedsForecast(size, n) == size > n

\* lines 29-52: from the interval inference on, for at least two samples
SearchWindow(samples, duration_h) ==
    IF SecsPerSample(samples) = 0 THEN NoWindow("ZeroDivisionError", 0)
    ELSE LET size == WindowSize(samples, duration_h)
         IN IF ExceedsForecast(size, Len(samples)) THEN NoWindow("WindowTooLarge", size)
            ELSE LET best == Slide(samples, size, 0,
                                   [status |-> "ok", set |-> FALSE, num |-> 0, start |-> 0])
                 IN IF best.status # "ok" THEN NoWindow(best.status, size)
                    ELSE IF ~best.set THEN NoWindow("TypeError", size)
                    ELSE [status |-> "ok", size |-> size,
                          start |-> best.start,
                          end |-> best.start + duration_h * SecondsPerHour,
                          num |-> best.num, den |-> size]

\* a mutation of find_optimal_window: the guard is len(samples) < 1, and a single
\* sample goes on to samples[1], an IndexError
find_optimal_window_one_sample(points, duration_h) ==
    LET samples == ParseSamples(points)
    IN IF Len(samples) < 1 THEN NoWindow("InsufficientData", 0)
       ELSE IF Len(samples) = 1 THEN NoWindow("IndexError", 0)
       ELSE SearchWindow(samples, duration_h)

\* if len(samples) < 2: raise ValueError("Need at least two samples to infer interval")
find_optimal_window(points, duration_h) ==
    LET samples == ParseSamples(points)
    IN IF Len(samples) < 2 THEN NoWindow("InsufficientData", 0)
       ELSE SearchWindow(samples, duration_h)

-----------------------------------------------------------------------------
(* fetch_forecast.save_transformed_json *)

\* Python's round(a / b): to the nearest integer, a tie to the even one
RoundHalfEven(a, b) ==
    LET num == IF b > 0 THEN a ELSE -a
        den == IF b > 0 THEN b ELSE -b
        q == num \div den
        r == num % den
    IN IF 2 * r < den THEN q
       ELSE IF 2 * r > den THEN q + 1
       ELSE IF q % 2 = 0 THEN q ELSE q + 1

\* point["point_time"].replace("+00:00", "Z")
NormalizeTs(ts) == [ts EXCEPT !.sfx = "Z"]

\* round(value * 0.453592, 2), in hundredths of g/kWh (the exact product rounded;
\* the float product can fall on the other side of an exact tie, the first of
\* which is at value 625)
ConvertValue(v) == RoundHalfEven(v * 453592, 10000)

\* the loop of lines 39-43: one output point per input point, in the input's order
Transform(points) ==
    [i \in 1 .. Len(points) |->
        [timestamp |-> NormalizeTs(points[i].point_time),
         value |-> ConvertValue(points[i].value)]]

\* the truncation of lines 46-53 is taken
Truncates(transformed, duration_h) ==
    /\ ~duration_h.none
    /\ duration_h.h > 0
    /\ Len(transformed) >= 2

\* delta between the first two points as written, in seconds (may be negative or 0)
DeltaSeconds(transformed) ==
    ParseTs(transformed[2].timestamp) - ParseTs(transformed[1].timestamp)

\* pts_per_hour = int(round(60.0 / delta_min)); keep = duration_h * pts_per_hour
Keep(transformed, duration_h) ==
    duration_h.h * RoundHalfEven(SecondsPerHour, DeltaSeconds(transformed))

save_transformed_json(data, region, duration_h) ==
    LET transformed == Transform(data)
    IN IF ~Truncates(transformed, duration_h)
       THEN [status |-> "written", region |-> region, data |-> transformed]
       ELSE IF DeltaSeconds(transformed) = 0
       THEN [status |-> "ZeroDivisionError", region |-> region, data |-> <<>>]
       ELSE [status |-> "written", region |-> region,
             data |-> PySlice(transformed, 0, Keep(transformed, duration_h))]

-----------------------------------------------------------------------------
(* enforce_budget.enforce_budget *)

ExitSetup == 4        \* sys.exit(4): no policy file, no opa binary
ExitEvalError == 5    \* sys.exit(5): the evaluator's exit status was not 0
ExitParseError == 5   \* sys.exit(5): the evaluator's output could not be read
ExitDenied == 5       \* sys.exit(5): the evaluator's value is falsy

\* what the evaluator can write to stdout:
\*   "not_json"      no JSON document
\*   "no_result"     {}                       (the query is undefined)
\*   "empty_result"  {"result": []}
\*   "null" | "false" | "true"   {"result": [{"expressions": [{"value": ...}]}]}
Stdouts == {"not_json", "no_result", "empty_result", "null", "false", "true"}
ReturnCodes == {0, 1, 2}
Procs == [returncode : ReturnCodes, stdout : Stdouts]

\* out["result"][0]["expressions"][0]["value"] raises nothing
Parses(stdout) == stdout \in {"null", "false", "true"}

\* bool(value)
Truthy(stdout) == stdout = "true"

\* allowed_rate_gph = threshold_g / duration_h, as the exact fraction
AllowedRate(args) == [num |-> args.threshold_g, den |-> args.duration_h]

Payload(args) ==
    [emission_rate_gph |-> args.emission_rate_gph, threshold_rate_gph |-> AllowedRate(args)]

NoPayload == [emission_rate_gph |-> 0, threshold_rate_gph |-> [num |-> 0, den |-> 0]]
NoProc == [returncode |-> 0, stdout |-> "none"]

\* how a call ends
Exit(code) == [how |-> "exit", code |-> code]
Raise(exception) == [how |-> exception, code |-> 0]
Return == [how |-> "return", code |-> 0]
Running == [how |-> "none", code |-> 0]

\* duration_h of save_transformed_json: None, or an integer
None == [none |-> TRUE, h |-> 0]
Hours(h) == [none |-> FALSE, h |-> h]

\* lines 19-53 up to the start of the evaluator process: how they end
\*   env: which files exist (the policy, opa on PATH, /usr/local/bin/opa)
Prepare(args, env) ==
    IF ~env.policy THEN [exit |-> Exit(ExitSetup), msg |-> "policy_not_found"]
    ELSE IF args.duration_h = 0 THEN [exit |-> Raise("ZeroDivisionError"), msg |-> "none"]
    ELSE IF ~env.opa_on_path /\ ~env.opa_fallback
         THEN [exit |-> Exit(ExitSetup), msg |-> "opa_not_found"]
    ELSE [exit |-> Running, msg |-> "none"]

\* a mutation of Interpret: the parse is not in a try, and its KeyError or
\* IndexError leaves enforce_budget with no report
InterpretUncaught(proc) ==
    IF proc.returncode # 0 THEN [exit |-> Exit(ExitEvalError), msg |-> "opa_eval_error"]
    ELSE IF ~Parses(proc.stdout) THEN [exit |-> Raise("KeyError"), msg |-> "none"]
    ELSE IF ~Truthy(proc.stdout) THEN [exit |-> Exit(ExitDenied), msg |-> "rate_enforcement_failed"]
    ELSE [exit |-> Return, msg |-> "rate_within_budget"]

\* a mutation of Interpret: the falsy branch echoes and forgets sys.exit(5)
InterpretDeniedReturns(proc) ==
    IF proc.returncode # 0 THEN [exit |-> Exit(ExitEvalError), msg |-> "opa_eval_error"]
    ELSE IF ~Parses(proc.stdout) THEN [exit |-> Exit(ExitParseError), msg |-> "opa_parse_error"]
    ELSE IF ~Truthy(proc.stdout) THEN [exit |-> Return, msg |-> "rate_enforcement_failed"]
    ELSE [exit |-> Return, msg |-> "rate_within_budget"]

\* lines 56-87: what enforce_budget makes of the completed process
Interpret(proc) ==
    IF proc.returncode # 0 THEN [exit |-> Exit(ExitEvalError), msg |-> "opa_eval_error"]
    ELSE IF ~Parses(proc.stdout) THEN [exit |-> Exit(ExitParseError), msg |-> "opa_parse_error"]
    ELSE IF ~Truthy(proc.stdout) THEN [exit |-> Exit(ExitDenied), msg |-> "rate_enforcement_failed"]
    ELSE [exit |-> Return, msg |-> "rate_within_budget"]

Envs == [policy : BOOLEAN, opa_on_path : BOOLEAN, opa_fallback : BOOLEAN]

EnforceStart ==
    /\ e_pc = "call"
    /\ \E env \in Envs :
          LET p == Prepare(e_args, env)
          IN IF p.exit # Running
             THEN /\ e_pc' = "done"
                  /\ e_exit' = p.exit
                  /\ e_msg' = p.msg
                  /\ UNCHANGED <<e_payload, e_calls>>
             ELSE /\ e_pc' = "opa"
                  /\ e_payload' = Payload(e_args)
                  /\ e_calls' = e_calls + 1
                  /\ UNCHANGED <<e_exit, e_msg>>
    /\ UNCHANGED <<e_args, e_proc>>

EnforceFinish ==
    /\ e_pc = "opa"
    /\ \E proc \in Procs :
          /\ e_proc' = proc
          /\ e_pc' = "done"
          /\ e_exit' = Interpret(proc).exit
          /\ e_msg' = Interpret(proc).msg
    /\ UNCHANGED <<e_args, e_payload, e_calls>>

-----------------------------------------------------------------------------
(* The components at rest *)

IdleWindow ==
    /\ w_points = <<>>
    /\ w_duration = 0
    /\ w_pc = "idle"
    /\ w_result = NoWindow("none", 0)

IdleNormalize ==
    /\ n_raw = <<>>
    /\ n_duration = None
    /\ n_pc = "idle"
    /\ n_out = [status |-> "none", region |-> "", data |-> <<>>]

NoArgs == [emission_rate_gph |-> 0, threshold_g |-> 0, duration_h |-> 0]

IdleEnforce ==
    /\ e_args = NoArgs
    /\ e_pc = "idle"
    /\ e_payload = NoPayload
    /\ e_calls = 0
    /\ e_proc = NoProc
    /\ e_exit = Running
    /\ e_msg = "none"

NoPrediction == [energy_whph |-> 0, emission_rate |-> 0]

IdleRun ==
    /\ r_pc = "idle"
    /\ r_duration = 0
    /\ r_full = <<>>
    /\ r_predicted = NoPrediction
    /\ r_log = <<>>
    /\ r_exit = Running

-----------------------------------------------------------------------------
(* The window optimizer on its own: a forecast file and a duration, then the call *)

ForecastPoints == [timestamp : [tick : Ticks, sfx : {"Z"}], value : Values]

InitWindow ==
    /\ w_points \in SeqsUpTo(ForecastPoints, MaxN)
    /\ w_duration \in Durations
    /\ w_pc = "call"
    /\ w_result = NoWindow("none", 0)
    /\ IdleNormalize
    /\ IdleEnforce
    /\ IdleRun

CallFindOptimalWindow ==
    /\ w_pc = "call"
    /\ w_result' = find_optimal_window(w_points, w_duration)
    /\ w_pc' = "done"
    /\ UNCHANGED <<w_points, w_duration, nvars, evars, rvars>>

NextWindow == CallFindOptimalWindow

SpecWindow == InitWindow /\ [][NextWindow]_vars

-----------------------------------------------------------------------------
(* The normalizer on its own: a provider payload in any order, then the call *)

RawPoints == [point_time : [tick : Ticks, sfx : Suffixes], value : Values]

InitNormalize ==
    /\ n_raw \in SeqsUpTo(RawPoints, MaxN)
    /\ n_duration \in {None} \cup {Hours(h) : h \in Durations}
    /\ n_pc = "call"
    /\ n_out = [status |-> "none", region |-> "", data |-> <<>>]
    /\ IdleWindow
    /\ IdleEnforce
    /\ IdleRun

CallSaveTransformedJson ==
    /\ n_pc = "call"
    /\ n_out' = save_transformed_json(n_raw, "us-west2", n_duration)
    /\ n_pc' = "done"
    /\ UNCHANGED <<n_raw, n_duration, wvars, evars, rvars>>

NextNormalize == CallSaveTransformedJson

SpecNormalize == InitNormalize /\ [][NextNormalize]_vars

-----------------------------------------------------------------------------
(* The budget decision on its own: one invocation *)

MaxRate == 2         \* predicted rates are 0 .. MaxRate g/h
MaxThreshold == 2    \* thresholds are 0 .. MaxThreshold g

Rates == 0 .. MaxRate
Thresholds == 0 .. MaxThreshold

InitEnforce ==
    /\ e_args \in [emission_rate_gph : Rates, threshold_g : Thresholds, duration_h : Durations]
    /\ e_pc = "call"
    /\ e_payload = NoPayload
    /\ e_calls = 0
    /\ e_proc = NoProc
    /\ e_exit = Running
    /\ e_msg = "none"
    /\ IdleWindow
    /\ IdleNormalize
    /\ IdleRun

NextEnforce ==
    \/ EnforceStart /\ UNCHANGED <<wvars, nvars, rvars>>
    \/ EnforceFinish /\ UNCHANGED <<wvars, nvars, rvars>>

SpecEnforce == InitEnforce /\ [][NextEnforce]_vars

-----------------------------------------------------------------------------
(* cli.run, the end-to-end run.  The forecast is hourly; budget.duration,   *)
(* budget.threshold and what the provider, the estimator and the evaluator  *)
(* answer are the inputs.  plan.hours is left at its default.               *)

DefaultHours == 72     \* cfg.get("plan", {}).get("hours", 72)
ExitConfig == 1        \* sys.exit(1): config, credentials, login, plan folder, policy file
ExitPredict == 3       \* sys.exit(3): predict_emission could not produce a rate
MaxRunN == 2           \* longest provider payload of a run
MaxEnergy == 1         \* the estimator's energy draw is 0 .. MaxEnergy kWh/h

HourTicks == SecondsPerHour \div TickSeconds
RunRawPoints == [point_time : [tick : {0, HourTicks}, sfx : {"+00:00"}], value : {1}]
\* fetch_forecast_data: the provider's points, none when the request failed
RunPayloads == SeqsUpTo(RunRawPoints, MaxRunN)
Energies == {1000 * k : k \in 0 .. MaxEnergy}
\* what predict_emission hands to run: the energy draw (Wh/h) and the rate (g/h).
\* run unpacks a pair; the estimator's own code is outside this model
Predictions == [energy_whph : Energies, emission_rate : Rates]

\* the exit status of the process for a way of ending
ExitStatus(end) ==
    IF end.how = "exit" THEN end.code
    ELSE IF end.how = "return" THEN 0
    ELSE 1

RunEnds(end, message) ==
    /\ r_pc' = "done"
    /\ r_exit' = end
    /\ r_log' = IF message = "none" THEN r_log ELSE Append(r_log, message)

\* lines 27-64: the config, the credentials, the login, the parameters
RunConfigure ==
    /\ r_pc = "start"
    /\ \/ \E failure \in {"config_unreadable", "credentials_missing", "login_failed"} :
             /\ RunEnds(Exit(ExitConfig), failure)
             /\ UNCHANGED r_duration
       \/ \E d \in Durations :
             /\ r_duration' = d
             /\ r_pc' = "fetch_full"
             /\ UNCHANGED <<r_log, r_exit>>
    /\ UNCHANGED <<r_full, r_predicted, wvars, nvars, evars>>

\* lines 66-73: fetch_forecast(..., duration_h=hours) writes forecast_full.json
\* (the fetch_forecast that takes duration_h, fetch_forecast.py lines 63-78)
RunFetchFull ==
    /\ r_pc = "fetch_full"
    /\ \E raw \in RunPayloads :
          LET out == save_transformed_json(raw, "us-west2", Hours(DefaultHours))
          IN IF out.status = "written"
             THEN /\ r_full' = out.data
                  /\ r_pc' = "fetch_window"
                  /\ r_log' = Append(r_log, "forecast_saved")
                  /\ UNCHANGED r_exit
             ELSE /\ RunEnds(Raise(out.status), "none")
                  /\ UNCHANGED r_full
    /\ UNCHANGED <<r_duration, r_predicted, wvars, nvars, evars>>

\* lines 75-82: fetch_forecast(..., duration_h=duration_h) writes forecast.json,
\* which only the estimator reads
RunFetchWindow ==
    /\ r_pc = "fetch_window"
    /\ \E raw \in RunPayloads :
          LET out == save_transformed_json(raw, "us-west2", Hours(r_duration))
          IN IF out.status = "written"
             THEN /\ r_pc' = "predict"
                  /\ r_log' = Append(r_log, "forecast_saved")
                  /\ UNCHANGED r_exit
             ELSE RunEnds(Raise(out.status), "none")
    /\ UNCHANGED <<r_duration, r_full, r_predicted, wvars, nvars, evars>>

\* lines 84-103: the plan folder, predict_emission, calculate_total_emissions
RunPredict ==
    /\ r_pc = "predict"
    /\ \/ /\ RunEnds(Exit(ExitConfig), "plan_folder_missing")
          /\ UNCHANGED r_predicted
       \/ /\ RunEnds(Exit(ExitPredict), "prediction_failed")
          /\ UNCHANGED r_predicted
       \/ \E prediction \in Predictions :
             /\ r_predicted' = prediction
             /\ r_pc' = "enforce"
             /\ r_log' = Append(r_log, "total_emissions")
             /\ UNCHANGED r_exit
    /\ UNCHANGED <<r_duration, r_full, wvars, nvars, evars>>

\* lines 105-118: the threshold, the policy file, the call of enforce_budget
RunEnforce ==
    /\ r_pc = "enforce"
    /\ \/ /\ RunEnds(Exit(ExitConfig), "policy_not_found")
          /\ UNCHANGED evars
       \/ \E threshold \in Thresholds :
             /\ e_args' = [emission_rate_gph |-> r_predicted.emission_rate,
                           threshold_g |-> threshold,
                           duration_h |-> r_duration]
             /\ e_pc' = "call"
             /\ r_pc' = "enforcing"
             /\ UNCHANGED <<e_payload, e_calls, e_proc, e_exit, e_msg, r_log, r_exit>>
    /\ UNCHANGED <<r_duration, r_full, r_predicted, wvars, nvars>>

\* lines 113-119: enforce_budget is over; its sys.exit or exception ends the run,
\* its return is followed by the success report
RunEnforced ==
    /\ r_pc = "enforcing"
    /\ e_pc = "done"
    /\ IF e_exit = Return
       THEN /\ r_pc' = "window"
            /\ r_log' = Append(r_log, "all_checks_passed")
            /\ UNCHANGED r_exit
       ELSE RunEnds(e_exit, "none")
    /\ UNCHANGED <<r_duration, r_full, r_predicted, wvars, nvars, evars>>

\* lines 121-132: the optimal window of the full forecast and the rate in it
RunFindWindow ==
    /\ r_pc = "window"
    /\ w_points' = r_full
    /\ w_duration' = r_duration
    /\ w_pc' = "done"
    /\ w_result' = find_optimal_window(r_full, r_duration)
    /\ IF w_result'.status = "ok"
       THEN /\ r_pc' = "done"
            /\ r_exit' = Return
            /\ r_log' = r_log \o <<"optimal_window", "window_rate">>
       ELSE RunEnds(Raise(w_result'.status), "none")
    /\ UNCHANGED <<r_duration, r_full, r_predicted, nvars, evars>>

InitRun ==
    /\ r_pc = "start"
    /\ r_duration = 0
    /\ r_full = <<>>
    /\ r_predicted = NoPrediction
    /\ r_log = <<>>
    /\ r_exit = Running
    /\ IdleWindow
    /\ IdleNormalize
    /\ IdleEnforce

NextRun ==
    \/ RunConfigure
    \/ RunFetchFull
    \/ RunFetchWindow
    \/ RunPredict
    \/ RunEnforce
    \/ EnforceStart /\ UNCHANGED <<wvars, nvars, rvars>>
    \/ EnforceFinish /\ UNCHANGED <<wvars, nvars, rvars>>
    \/ RunEnforced
    \/ RunFindWindow

SpecRun == InitRun /\ [][NextRun]_vars

-----------------------------------------------------------------------------
(* Properties of the window optimizer (SpecWindow) *)

Range(f) == {f[i] : i \in DOMAIN f}

Samples == ParseSamples(w_points)

\* the sum of the block of k samples that starts at sample b (the first is 1)
BlockSum(samples, b, k) == SumVals(SubSeq(samples, b, b + k - 1))

UniformlySpaced(samples) ==
    /\ Len(samples) >= 2
    /\ SecsPerSample(samples) > 0
    /\ \A i \in 1 .. Len(samples) - 1 :
          samples[i + 1].t - samples[i].t = SecsPerSample(samples)

\* block b is the earliest of the blocks of k samples with the least sum
EarliestMinimum(samples, b, k) ==
    /\ \A i \in 1 .. Len(samples) - k + 1 : BlockSum(samples, b, k) <= BlockSum(samples, i, k)
    /\ \A i \in 1 .. b - 1 : BlockSum(samples, i, k) > BlockSum(samples, b, k)

\* C1: for a series of n >= 2 uniformly spaced samples and a window size k with
\* 1 <= k <= n, find_optimal_window returns the least of the n - k + 1 block
\* averages and the timestamp of the earliest block that attains it.
C1_MinimumAverageEarliestWindow ==
    (/\ w_pc = "done"
     /\ UniformlySpaced(Samples)
     /\ WindowSize(Samples, w_duration) \in 1 .. Len(Samples))
    => LET k == WindowSize(Samples, w_duration)
       IN /\ w_result.status = "ok"
          /\ w_result.den = k
          /\ \E b \in 1 .. Len(Samples) - k + 1 :
                /\ EarliestMinimum(Samples, b, k)
                /\ w_result.num = BlockSum(Samples, b, k)
                /\ w_result.start = Samples[b].t

\* three samples, windows of two, both windows with the same average, the
\* first one returned
C1_TieWitness ==
    /\ w_pc = "done"
    /\ UniformlySpaced(Samples)
    /\ Len(Samples) = 3
    /\ WindowSize(Samples, w_duration) = 2
    /\ BlockSum(Samples, 1, 2) = BlockSum(Samples, 2, 2)
    /\ BlockSum(Samples, 1, 2) > 0
    /\ w_result.status = "ok"
    /\ w_result.start = Samples[1].t

\* C5: for a series of fewer than 2 samples, the empty one included,
\* find_optimal_window fails with InsufficientData and returns no window; no
\* average over zero samples is computed (no division by zero).
C5_FewerThanTwoSamplesInsufficientData ==
    (w_pc = "done" /\ Len(w_points) < 2)
    => /\ w_result.status = "InsufficientData"
       /\ w_result = NoWindow("InsufficientData", 0)

C5_SingleSampleWitness ==
    /\ w_pc = "done"
    /\ Len(w_points) = 1
    /\ w_duration = 1
    /\ w_result.status = "InsufficientData"

\* C6: for n >= 2 samples (with an interval to infer), find_optimal_window fails
\* with WindowTooLarge exactly when window_size > n; window_size = n succeeds
\* with the average of the whole series.
C6_WindowTooLargeExactlyAboveN ==
    (/\ w_pc = "done"
     /\ Len(Samples) >= 2
     /\ SecsPerSample(Samples) > 0)
    => LET k == WindowSize(Samples, w_duration)
           n == Len(Samples)
       IN /\ (w_result.status = "WindowTooLarge") <=> (k > n)
          /\ (k = n) => /\ w_result.status = "ok"
                        /\ w_result.num = SumVals(Samples)
                        /\ w_result.den = n
                        /\ w_result.start = Samples[1].t

\* a window of exactly the whole series of two samples
C6_WholeSeriesWitness ==
    /\ w_pc = "done"
    /\ Len(Samples) = 2
    /\ SecsPerSample(Samples) > 0
    /\ WindowSize(Samples, w_duration) = 2
    /\ w_result.status = "ok"
    /\ w_result.num = SumVals(Samples)
    /\ w_result.num > 0

\* C9 (as claimed): the window size used is round(duration_h * 3600 /
\* interval_seconds) for every duration of an hour or more and every inferred
\* interval.
C9_WindowSizeIsRoundedQuotient ==
    (/\ w_pc = "done"
     /\ w_duration >= 1
     /\ Len(Samples) >= 2
     /\ SecsPerSample(Samples) > 0)
    => w_result.size = RoundHalfEven(w_duration * SecondsPerHour, SecsPerSample(Samples))

-----------------------------------------------------------------------------
(* Properties of the normalizer (SpecNormalize) *)

NonDecreasing(times) == \A i \in 1 .. Len(times) - 1 : times[i] <= times[i + 1]

RawTimes == [i \in 1 .. Len(n_raw) |-> ParseTs(n_raw[i].point_time)]
WrittenTimes == [i \in 1 .. Len(n_out.data) |-> ParseTs(n_out.data[i].timestamp)]

\* C7 (as claimed): whatever the order of the payload's points, the series
\* the normalizer writes is non-decreasing by timestamp; and a payload
\* that is sorted already is written in the order it came in.
C7_WrittenSeriesSorted ==
    (n_pc = "done" /\ n_out.status = "written")
    => /\ NonDecreasing(WrittenTimes)
       /\ NonDecreasing(RawTimes)
            => /\ Len(WrittenTimes) <= Len(RawTimes)
               /\ WrittenTimes = SubSeq(RawTimes, 1, Len(WrittenTimes))

-----------------------------------------------------------------------------
(* Properties of the budget decision (SpecEnforce) *)

\* the verdict an invocation has reported (spec section 7's names)
Verdict ==
    IF e_pc # "done" THEN "Pending"
    ELSE IF e_msg = "rate_within_budget" /\ e_exit = Return THEN "Allowed"
    ELSE IF e_msg = "rate_enforcement_failed" THEN "Denied"
    ELSE IF e_msg \in {"opa_eval_error", "opa_parse_error"} THEN "EvaluationError"
    ELSE IF e_exit = Raise("ZeroDivisionError") THEN "InvalidBudget"
    ELSE "NoVerdict"

Verdicts == {"Allowed", "Denied", "EvaluationError"}

\* the report of a denial: the evaluator ran and its value is false
DeniedReport == Interpret([returncode |-> 0, stdout |-> "false"])

\* the evaluator failed: its exit status is not 0, or its output is no JSON
EvaluatorFailed ==
    /\ e_pc = "done"
    /\ e_calls = 1
    /\ \/ e_proc.returncode # 0
       \/ e_proc.stdout = "not_json"

\* C2 (as claimed): an evaluator failure is reported with an exit status and a
\* message that both differ from those of a denial.
C2_FailureReportedUnlikeDenial ==
    EvaluatorFailed
    => /\ Verdict = "EvaluationError"
       /\ e_exit # DeniedReport.exit
       /\ e_msg # DeniedReport.msg

\* C3 (as claimed): when the evaluator exits with 0 and its output has no
\* result, or an empty one, the decision is Denied.
C3_EmptyResultDenied ==
    (/\ e_pc = "done"
     /\ e_calls = 1
     /\ e_proc.returncode = 0
     /\ e_proc.stdout \in {"no_result", "empty_result"})
    => Verdict = "Denied"

\* C4 (as claimed): with duration_h <= 0 the decision fails with InvalidBudget
\* and yields no verdict; with duration_h > 0 the rate given to the evaluator
\* is threshold_g / duration_h.
C4_NonPositiveDurationInvalid ==
    /\ (e_args.duration_h <= 0 /\ e_pc = "done" /\ Verdict # "NoVerdict")
          => Verdict = "InvalidBudget"
    /\ (e_args.duration_h > 0 /\ e_calls = 1)
          => /\ e_payload.emission_rate_gph = e_args.emission_rate_gph
             /\ e_payload.threshold_rate_gph.num = e_args.threshold_g
             /\ e_payload.threshold_rate_gph.den = e_args.duration_h

-----------------------------------------------------------------------------
(* Properties of the end-to-end run (SpecRun) *)

Reported(message) == message \in Range(r_log)

\* the evaluator's answer that lets the run go on: exit status 0, value true
EvaluatorSaidTrue ==
    /\ e_pc = "done"
    /\ e_calls = 1
    /\ e_exit = Return
    /\ e_proc = [returncode |-> 0, stdout |-> "true"]

====
